---- MODULE Spec2Model ----
(***************************************************************************)
(* The "common letters" word game: the engine WordGame (src/wordgame.py),  *)
(* the OnlineWordProvider it consumes (src/providers.py) and the handlers  *)
(* of the presentation layer that drive it (src/app.py).                   *)
(*                                                                         *)
(* A Python str is a sequence of one-character strings; upper(), strip()   *)
(* and the regular expression are computed character by character.  The    *)
(* two remote services are the environment: each request draws its answer  *)
(* from the set of answers the service can give.                           *)
(***************************************************************************)
EXTENDS Integers, Sequences, FiniteSets, TLC

(***************************************************************************)
(* Bounds of the model.                                                    *)
(***************************************************************************)
\* max_attempts (constructor argument, "Max attempts" input) is 1..MaxAttempts
MaxAttempts == 2
\* the provider's max_retries (constructor argument)
MaxRetries == 2

(***************************************************************************)
(* Python values.                                                          *)
(***************************************************************************)
\* None where a str is expected: a value that no string of the model equals
None == <<"N", "o", "n", "e">>
\* None where an int is expected (length: Optional[int] = None)
NoneInt == -1

LowerLetters == {"a", "b"}
UpperLetters == {"A", "B"}
Whitespace == {" "}

\* str.upper() on one character
upper_char(c) ==
    CASE c = "a" -> "A"
      [] c = "b" -> "B"
      [] OTHER -> c

\* str.upper()
upper(s) == [i \in 1..Len(s) |-> upper_char(s[i])]

RECURSIVE lstrip(_)
lstrip(s) ==
    IF s # <<>> /\ Head(s) \in Whitespace THEN lstrip(Tail(s)) ELSE s

RECURSIVE rstrip(_)
rstrip(s) ==
    IF s # <<>> /\ s[Len(s)] \in Whitespace
    THEN rstrip(SubSeq(s, 1, Len(s) - 1))
    ELSE s

\* str.strip()
strip(s) == rstrip(lstrip(s))

\* _WORD_RE.match(s): ^[A-Za-z]+$
WORD_RE_match(s) ==
    /\ s # <<>>
    /\ \A i \in 1..Len(s) : s[i] \in LowerLetters \cup UpperLetters

\* set(s): the distinct characters of s
set(s) == {s[i] : i \in 1..Len(s)}

unique_common_lettersLength(a, b) == Len(a)

\* unique_common_letters(a, b)
unique_common_letters(a, b) == Cardinality(set(upper(a)) \cap set(upper(b)))

(***************************************************************************)
(* The local dictionary: words.txt, split into tokens, normalised and      *)
(* bucketed by length.                                                     *)
(***************************************************************************)
RECURSIVE _normalize_words(_)
\* the tokens of raw.split() that match _WORD_RE, upper-cased
_normalize_words(tokens) ==
    IF tokens = <<>> THEN <<>>
    ELSE (IF WORD_RE_match(Head(tokens)) THEN <<upper(Head(tokens))>> ELSE <<>>)
         \o _normalize_words(Tail(tokens))

RECURSIVE bucket(_, _)
\* the words of the given length, in file order
bucket(words, n) ==
    IF words = <<>> THEN <<>>
    ELSE (IF Len(Head(words)) = n THEN <<Head(words)>> ELSE <<>>)
         \o bucket(Tail(words), n)

\* build_by_length(words): {length: [WORDS]}, keys only for lengths present
build_by_length(words) ==
    [n \in {Len(words[i]) : i \in 1..Len(words)} |-> bucket(words, n)]

dict_getEmpty(d, k) == <<>>

\* dict.get(k, [])
dict_get(d, k) == IF k \in DOMAIN d THEN d[k] ELSE <<>>

\* the word files an engine is loaded from: one without a usable token (the
\* same buckets as a missing file) and one with two words of length 2
WordFiles ==
    { << <<"a", "1">> >>,
      << <<"a", "b">>, <<"B", "A">>, <<"b", "1">> >> }

\* the length arguments: a non-positive one, one that no word of the model
\* has, and the length of the words
LengthArgs == {0, 1, 2}

\* what the player types
RawGuesses ==
    { <<" ">>, <<"a", "1">>, <<"a", "b", "a", "b">>,
      <<"a", "b">>, <<" ", "A", "b">>, <<"b", "a">>, <<"a", "a">> }

\* the strings the random-word service may put first in its JSON list
SourceWords == { <<"a", "b">>, <<"a", "a">> }

(***************************************************************************)
(* OnlineWordProvider: the answers of the two remote services.             *)
(***************************************************************************)
\* requests.get on the dictionary API: a status code, or the exception raised
LookupResponses == {"200", "404", "503", "Timeout", "RequestException", "Exception"}

\* the answers to draw from for a lookup of `word`: the API is only asked when
\* neither cache holds the word
lookup_answers(asked, word, vc, ic) ==
    IF asked /\ upper(word) \notin vc \cup ic THEN LookupResponses ELSE {"NoRequest"}

\* requests.get on the random-word API, raise_for_status() and json():
\* an exception, or the decoded payload
FetchResponses ==
    [kind : {"Timeout", "RequestException", "ValueError", "NotAList",
             "EmptyList", "NonString"}, word : {<<>>}]
    \cup [kind : {"Word"}, word : SourceWords \cup {<<>>}]

is_valid_wordCaseSensitive(word, resp, vc, ic) ==
    LET up == upper(word) IN
    IF word \in vc THEN
        [ret |-> "True", valid_cache |-> vc, invalid_cache |-> ic, network |-> FALSE]
    ELSE IF word \in ic THEN
        [ret |-> "False", valid_cache |-> vc, invalid_cache |-> ic, network |-> FALSE]
    ELSE IF resp = "200" THEN
        [ret |-> "True", valid_cache |-> vc \cup {up}, invalid_cache |-> ic,
         network |-> TRUE]
    ELSE IF resp = "404" THEN
        [ret |-> "False", valid_cache |-> vc, invalid_cache |-> ic \cup {up},
         network |-> TRUE]
    ELSE
        [ret |-> "None", valid_cache |-> vc, invalid_cache |-> ic, network |-> TRUE]

is_valid_wordCachesUnknown(word, resp, vc, ic) ==
    LET up == upper(word) IN
    IF up \in vc THEN
        [ret |-> "True", valid_cache |-> vc, invalid_cache |-> ic, network |-> FALSE]
    ELSE IF up \in ic THEN
        [ret |-> "False", valid_cache |-> vc, invalid_cache |-> ic, network |-> FALSE]
    ELSE IF resp = "200" THEN
        [ret |-> "True", valid_cache |-> vc \cup {up}, invalid_cache |-> ic,
         network |-> TRUE]
    ELSE IF resp = "404" THEN
        [ret |-> "False", valid_cache |-> vc, invalid_cache |-> ic \cup {up},
         network |-> TRUE]
    ELSE
        [ret |-> "None", valid_cache |-> vc, invalid_cache |-> ic \cup {up},
         network |-> TRUE]

is_valid_wordSkipsInvalidCache(word, resp, vc, ic) ==
    LET up == upper(word) IN
    IF up \in vc THEN
        [ret |-> "True", valid_cache |-> vc, invalid_cache |-> ic, network |-> FALSE]
    ELSE IF resp = "200" THEN
        [ret |-> "True", valid_cache |-> vc \cup {up}, invalid_cache |-> ic,
         network |-> TRUE]
    ELSE IF resp = "404" THEN
        [ret |-> "False", valid_cache |-> vc, invalid_cache |-> ic \cup {up},
         network |-> TRUE]
    ELSE
        [ret |-> "None", valid_cache |-> vc, invalid_cache |-> ic, network |-> TRUE]

\* is_valid_word(word) on caches vc, ic when the dictionary API answers resp:
\* the value returned ("True" | "False" | "None"), the caches afterwards and
\* whether a request was issued
is_valid_word(word, resp, vc, ic) ==
    LET up == upper(word) IN
    IF up \in vc THEN
        [ret |-> "True", valid_cache |-> vc, invalid_cache |-> ic, network |-> FALSE]
    ELSE IF up \in ic THEN
        [ret |-> "False", valid_cache |-> vc, invalid_cache |-> ic, network |-> FALSE]
    ELSE IF resp = "200" THEN
        [ret |-> "True", valid_cache |-> vc \cup {up}, invalid_cache |-> ic,
         network |-> TRUE]
    ELSE IF resp = "404" THEN
        [ret |-> "False", valid_cache |-> vc, invalid_cache |-> ic \cup {up},
         network |-> TRUE]
    ELSE
        [ret |-> "None", valid_cache |-> vc, invalid_cache |-> ic, network |-> TRUE]

get_random_word_iterationAcceptsUnknown(fresp, lresp, vc, ic) ==
    LET unchanged(o) ==
            [outcome |-> o, word |-> None, is_valid |-> "NotCalled",
             valid_cache |-> vc, invalid_cache |-> ic]
    IN
    IF fresp.kind \in {"Timeout", "RequestException", "ValueError"} THEN
        unchanged("retry")
    ELSE IF fresp.kind = "NonString" THEN
        unchanged("raise")
    ELSE
        LET word == IF fresp.kind = "Word" THEN upper(fresp.word) ELSE None IN
        IF word = None \/ word = <<>> THEN
            unchanged("retry")
        ELSE
            LET v == is_valid_word(word, lresp, vc, ic) IN
            [outcome |-> IF v.ret # "False" THEN "return" ELSE "retry",
             word |-> IF v.ret # "False" THEN word ELSE None,
             is_valid |-> v.ret,
             valid_cache |-> v.valid_cache, invalid_cache |-> v.invalid_cache]

\* one iteration of the loop of get_random_word: "return" the word, "raise"
\* (an exception no except clause of the loop catches) or "retry"
get_random_word_iteration(fresp, lresp, vc, ic) ==
    LET unchanged(o) ==
            [outcome |-> o, word |-> None, is_valid |-> "NotCalled",
             valid_cache |-> vc, invalid_cache |-> ic]
    IN
    IF fresp.kind \in {"Timeout", "RequestException", "ValueError"} THEN
        unchanged("retry")
    ELSE IF fresp.kind = "NonString" THEN
        \* data[0].upper() raises AttributeError
        unchanged("raise")
    ELSE
        LET word == IF fresp.kind = "Word" THEN upper(fresp.word) ELSE None IN
        IF word = None \/ word = <<>> THEN
            unchanged("retry")
        ELSE
            LET v == is_valid_word(word, lresp, vc, ic) IN
            [outcome |-> IF v.ret = "True" THEN "return" ELSE "retry",
             word |-> IF v.ret = "True" THEN word ELSE None,
             is_valid |-> v.ret,
             valid_cache |-> v.valid_cache, invalid_cache |-> v.invalid_cache]

\* the defaults of OnlineWordProvider.__init__; times in units of 1/1280 s, in
\* which every delay of the loop and a tenth of it are whole numbers
max_retries == 10
backoff_base == 640
backoff_factor == <<3, 2>>
backoff_cap == 6400

min(a, b) == IF a <= b THEN a ELSE b
max(a, b) == IF a >= b THEN a ELSE b

\* for attempt in range(1, max_retries + 1): is there a next iteration
loop_continuesOffByOne(n, limit) == n <= limit

loop_continues(n, limit) == n < limit

\* min(delay, self.backoff_cap)
sleep_base(d) == min(d, backoff_cap)

\* random.uniform(0, 0.1 * max(delay, 0)): both ends and the middle
jitter(d) ==
    LET top == max(d, 0) \div 10 IN {0, top \div 2, top}

next_delayNoCap(d) == (d * backoff_factor[1]) \div backoff_factor[2]

\* delay = min(delay * self.backoff_factor, self.backoff_cap)
next_delay(d) == min((d * backoff_factor[1]) \div backoff_factor[2], backoff_cap)

(***************************************************************************)
(* State.                                                                  *)
(***************************************************************************)
VARIABLES
    \* WordGame
    words_by_length,   \* {length: [WORDS]}
    max_attempts,
    provider,          \* "None" | "OnlineWordProvider"
    connection_mode,   \* "None" | "online" | "Offline" | "offline"
    length,            \* NoneInt or the length of the round
    secret,            \* None or the secret word
    attempts_left,
    status,            \* "idle" | "playing" | "won" | "lost"
    _history,          \* sequence of [guess, common]
    \* OnlineWordProvider
    _valid_cache,
    _invalid_cache,
    \* position of the caller: "ready", or "get_random_word" while new_game
    \* waits in the provider's retry loop, about to run iteration `attempt`
    pc,
    attempt,
    \* history variables: the engine fields when the new_game in progress was
    \* called, the max_attempts the current round started with, and the last
    \* call with what it returned
    pre,
    round_attempts,
    call,
    \* a call of the provider by a client of its own: the locals of
    \* get_random_word (delay; sleep_for, the last sleep; with sleeps, the
    \* number of sleeps so far) and the call with what it returned
    delay,
    sleeps,
    sleep_for,
    pcall

vars == <<words_by_length, max_attempts, provider, connection_mode, length, secret,
          attempts_left, status, _history, _valid_cache, _invalid_cache, pc,
          attempt, pre, round_attempts, call, delay, sleeps, sleep_for, pcall>>

\* what a call of the engine leaves alone
provider_call_vars == <<delay, sleeps, sleep_for, pcall>>

\* the fields of GameState
Fields ==
    [status |-> status, length |-> length, secret |-> secret,
     attempts_left |-> attempts_left, history |-> _history]

\* no new_game is in progress
NoSnapshot ==
    [status |-> "idle", length |-> NoneInt, secret |-> None, attempts_left |-> 0,
     history |-> <<>>]

NoCall ==
    [op |-> "none", length_arg |-> NoneInt, raised |-> FALSE, fetched |-> "n/a",
     valid |-> FALSE, message |-> "", lookup |-> "NotCalled", word |-> None]

\* no call of the provider yet; of a call: its operation, its arguments, how
\* get_random_word ended ("word" | "none" | "raised"), the value returned, the
\* answer of is_valid_word in the call and whether a request was issued
NoProviderCall ==
    [op |-> "none", length_arg |-> NoneInt, word |-> None, fetched |-> "n/a",
     ret |-> None, lookup |-> "NotCalled", network |-> FALSE]

\* provider.last_mode is set to None by __init__ and never assigned again
last_mode == "None"

\* Python's `a or b` on Optional[str]
or(a, b) == IF a # "None" /\ a # "" THEN a ELSE b

\* the engine app.py builds (no provider), the engine of the CLI (a provider)
Init ==
    /\ words_by_length \in {build_by_length(_normalize_words(f)) : f \in WordFiles}
    /\ max_attempts \in 1..MaxAttempts
    /\ provider \in {"None", "OnlineWordProvider"}
    /\ connection_mode = "None"
    /\ length = NoneInt
    /\ secret = None
    /\ attempts_left = 0
    /\ status = "idle"
    /\ _history = <<>>
    /\ _valid_cache = {}
    /\ _invalid_cache = {}
    /\ pc = "ready"
    /\ attempt = 0
    /\ pre = NoSnapshot
    /\ round_attempts = 0
    /\ call = NoCall
    /\ delay = 0
    /\ sleeps = 0
    /\ sleep_for = 0
    /\ pcall = NoProviderCall

(***************************************************************************)
(* WordGame.new_game                                                       *)
(***************************************************************************)
new_roundKeepsHistory(word, ma) ==
    [secret |-> upper(word), attempts_left |-> ma, status |-> "playing",
     history |-> _history]

\* lines 119-122 of new_game: the fields of the round that starts
new_round(word, ma) ==
    [secret |-> upper(word), attempts_left |-> ma, status |-> "playing",
     history |-> <<>>]

\* lines 109-123 of new_game, after the provider was asked (or was absent):
\* `got` is the provider's word or None, `fetched` how the provider ended
new_game_finish(len, got, fetched) ==
    LET pool == dict_get(words_by_length, len)
        done(ok) == [NoCall EXCEPT !.op = "new_game", !.length_arg = len,
                                   !.raised = ~ok, !.fetched = fetched]
        start(word, mode) ==
            /\ secret' = new_round(word, max_attempts').secret
            /\ attempts_left' = new_round(word, max_attempts').attempts_left
            /\ status' = new_round(word, max_attempts').status
            /\ _history' = new_round(word, max_attempts').history
            /\ connection_mode' = mode
            /\ round_attempts' = max_attempts'
            /\ call' = done(TRUE)
    IN
    /\ length' = len
    /\ pc' = "ready"
    /\ attempt' = 0
    /\ pre' = NoSnapshot
    /\ IF got # None /\ got # <<>> THEN
           start(got, or(last_mode, "online"))
       ELSE IF pool # <<>> THEN
           \E i \in 1..Len(pool) :
               start(pool[i], or(IF provider # "None" THEN last_mode ELSE "None",
                                 "Offline"))
       ELSE
           \* raise ValueError("No words of length ...")
           /\ call' = done(FALSE)
           /\ UNCHANGED <<secret, attempts_left, status, _history,
                          connection_mode, round_attempts>>

\* new_game(len) up to the call of the provider; `ma` is max_attempts as the
\* caller left it
new_game(len, ma) ==
    /\ pc = "ready"
    /\ max_attempts' = ma
    /\ UNCHANGED <<words_by_length, provider>>
    /\ IF len <= 0 THEN
           \* raise ValueError("Please choose a positive word length.")
           /\ call' = [NoCall EXCEPT !.op = "new_game", !.length_arg = len,
                                     !.raised = TRUE]
           /\ UNCHANGED <<connection_mode, length, secret, attempts_left, status,
                          _history, _valid_cache, _invalid_cache, pc, attempt, pre,
                          round_attempts>>
       ELSE IF provider = "None" THEN
           /\ new_game_finish(len, None, "absent")
           /\ UNCHANGED <<_valid_cache, _invalid_cache>>
       ELSE
           /\ length' = len
           /\ pc' = "get_random_word"
           /\ attempt' = 1
           /\ pre' = Fields
           /\ call' = [NoCall EXCEPT !.op = "get_random_word", !.length_arg = len]
           /\ UNCHANGED <<connection_mode, secret, attempts_left, status, _history,
                          _valid_cache, _invalid_cache, round_attempts>>

\* engine.new_game(length) of the CLI, eng.new_game(eng.length or 5) of
\* "Play Again"
NewGame == \E len \in LengthArgs : new_game(len, max_attempts)

\* the "New Game" button: eng.max_attempts = int(attempts), then new_game;
\* both number inputs have a positive minimum
NewGameButton ==
    \E attempts \in 1..MaxAttempts, len \in {n \in LengthArgs : n > 0} :
        new_game(len, attempts)

\* one iteration of provider.get_random_word(length) inside new_game; the
\* iteration that ends the loop runs the rest of new_game
GetRandomWordIteration ==
    /\ pc = "get_random_word"
    /\ \E fresp \in FetchResponses :
       \E lresp \in lookup_answers(fresp.kind = "Word" /\ fresp.word # <<>>,
                                   fresp.word, _valid_cache, _invalid_cache) :
        LET it == get_random_word_iteration(fresp, lresp, _valid_cache,
                                            _invalid_cache)
        IN
        /\ _valid_cache' = it.valid_cache
        /\ _invalid_cache' = it.invalid_cache
        /\ UNCHANGED <<words_by_length, max_attempts, provider>>
        /\ IF it.outcome = "return" THEN
               new_game_finish(length, it.word, "word")
           ELSE IF it.outcome = "raise" THEN
               \* except Exception: secret = None
               new_game_finish(length, None, "raised")
           ELSE IF attempt < MaxRetries THEN
               \* sleep, then the next iteration
               /\ attempt' = attempt + 1
               /\ UNCHANGED <<connection_mode, length, secret, attempts_left,
                              status, _history, pc, pre, round_attempts, call>>
           ELSE
               \* sleep, then return None
               new_game_finish(length, None, "none")

(***************************************************************************)
(* WordGame.guess                                                          *)
(***************************************************************************)
not_playingIdleOnly(st) == st = "idle"

\* if self.status != "playing"
not_playing(st) == st # "playing"

already_guessedNever(hist, guess) == FALSE

\* for h in self._history: if h["guess"] == guess
already_guessed(hist, guess) == \E i \in 1..Len(hist) : hist[i].guess = guess

\* the message of the local check that rejects the guess, "" when all pass
local_check(word) ==
    LET guess == upper(strip(word)) IN
    IF not_playing(status) THEN "Start a new game first."
    ELSE IF length = NoneInt \/ secret = None THEN "Game not initialized."
    ELSE IF guess = <<>> THEN "Please enter a guess."
    ELSE IF ~WORD_RE_match(guess) THEN "Use letters A-Z only."
    ELSE IF Len(guess) # length THEN "Please enter exactly {self.length} letters."
    ELSE IF already_guessed(_history, guess) THEN "You already guessed. Try again."
    ELSE ""

in_poolNever(pool, guess) == FALSE

\* guess in pool
in_pool(pool, guess) == \E i \in 1..Len(pool) : pool[i] = guess

dictionary_stageNoUnavailable(ret, pool, guess) ==
    IF ret = "True" \/ (ret = "None" /\ pool # <<>> /\ in_pool(pool, guess))
    THEN "accepted" ELSE "rejected"

\* lines 172-182: what becomes of a guess the provider answered `ret` for
\* ("None" also when there is no provider), pool being the local words of the
\* round's length: "accepted", "rejected" (not in the dictionary) or
\* "unavailable" (no dictionary to ask)
dictionary_stage(ret, pool, guess) ==
    IF ret = "None" THEN
        IF pool # <<>> /\ in_pool(pool, guess) THEN "accepted"
        ELSE IF pool = <<>> THEN "unavailable"
        ELSE "rejected"
    ELSE IF ret = "True" THEN "accepted"
    ELSE "rejected"

round_statusNoLoss(guess, sec, left, st) == IF guess = sec THEN "won" ELSE st

round_statusOffByOne(guess, sec, left, st) ==
    IF guess = sec THEN "won" ELSE IF left < 0 THEN "lost" ELSE st

\* the win / lose checks
round_status(guess, sec, left, st) ==
    IF guess = sec THEN "won"
    ELSE IF left <= 0 THEN "lost"
    ELSE st

\* guess(word), the dictionary API answering lresp if it is asked
Guess ==
    /\ pc = "ready"
    /\ \E word \in RawGuesses :
       \E lresp \in lookup_answers(provider # "None" /\ local_check(word) = "",
                                   word, _valid_cache, _invalid_cache) :
        LET guess == upper(strip(word))
            rejected == local_check(word)
            v == IF provider # "None"
                 THEN is_valid_word(guess, lresp, _valid_cache, _invalid_cache)
                 ELSE [ret |-> "None", valid_cache |-> _valid_cache,
                       invalid_cache |-> _invalid_cache, network |-> FALSE]
            used_online == v.ret # "None"
            pool == IF DOMAIN words_by_length # {}
                    THEN dict_get(words_by_length, length) ELSE <<>>
            stage == dictionary_stage(v.ret, pool, guess)
            common == unique_common_letters(guess, secret)
            ret(valid, message) ==
                [NoCall EXCEPT !.op = "guess", !.valid = valid,
                               !.message = message, !.word = word,
                               !.lookup = IF provider # "None" /\ rejected = ""
                                          THEN v.ret ELSE "NotCalled"]
        IN
        /\ UNCHANGED <<words_by_length, max_attempts, provider, length, secret,
                       pc, attempt, pre, round_attempts>>
        /\ IF rejected # "" THEN
               /\ call' = ret(FALSE, rejected)
               /\ UNCHANGED <<connection_mode, attempts_left, status, _history,
                              _valid_cache, _invalid_cache>>
           ELSE
               /\ _valid_cache' = v.valid_cache
               /\ _invalid_cache' = v.invalid_cache
               /\ connection_mode' =
                     IF stage = "unavailable" THEN connection_mode
                     ELSE IF v.ret = "None" /\ ~used_online THEN "offline"
                     ELSE IF provider # "None" THEN or(last_mode, connection_mode)
                     ELSE connection_mode
               /\ IF stage = "unavailable" THEN
                      /\ call' = ret(FALSE, "Dictionary unavailable. Check internet or words.txt.")
                      /\ UNCHANGED <<attempts_left, status, _history>>
                  ELSE IF stage = "rejected" THEN
                      /\ call' = ret(FALSE, "is not in the dictionary.")
                      /\ UNCHANGED <<attempts_left, status, _history>>
                  ELSE
                      /\ attempts_left' = attempts_left - 1
                      /\ _history' = Append(_history,
                                            [guess |-> guess, common |-> common])
                      /\ status' = round_status(guess, secret, attempts_left', status)
                      /\ call' = ret(TRUE, "")

\* provider.clear_cache()
ClearCache ==
    /\ pc = "ready"
    /\ provider # "None"
    /\ _valid_cache' = {}
    /\ _invalid_cache' = {}
    /\ call' = [NoCall EXCEPT !.op = "clear_cache"]
    /\ UNCHANGED <<words_by_length, max_attempts, provider, connection_mode, length,
                   secret, attempts_left, status, _history, pc, attempt, pre,
                   round_attempts>>

\* the engine and its provider, driven by one caller; the sleeps of the retry
\* loop, which change nothing the engine reads, are those of GetRandomWordStep
Next ==
    \/ NewGame /\ UNCHANGED provider_call_vars
    \/ NewGameButton /\ UNCHANGED provider_call_vars
    \/ GetRandomWordIteration /\ UNCHANGED provider_call_vars
    \/ Guess /\ UNCHANGED provider_call_vars
    \/ ClearCache /\ UNCHANGED provider_call_vars

Spec == Init /\ [][Next]_vars

(***************************************************************************)
(* OnlineWordProvider called by a client of its own.                       *)
(***************************************************************************)
\* the arguments of is_valid_word: a word in several letter cases, and another
LookupWords == {<<"a", "b">>, <<"A", "B">>, <<"A", "b">>, <<"b", "a">>}

engine_vars == <<words_by_length, max_attempts, provider, connection_mode, length,
                 secret, attempts_left, status, _history, pre, round_attempts>>

\* provider.get_random_word(length) is called: nothing looks at length before
\* the loop
GetRandomWord ==
    /\ pc = "ready"
    /\ \E len \in LengthArgs :
           pcall' = [NoProviderCall EXCEPT !.op = "get_random_word",
                                           !.length_arg = len]
    /\ pc' = "get_random_word"
    /\ attempt' = 1
    /\ delay' = backoff_base
    /\ sleeps' = 0
    /\ sleep_for' = 0
    /\ UNCHANGED <<engine_vars, _valid_cache, _invalid_cache, call>>

\* one iteration of the loop of get_random_word, with the sleep and the new
\* delay that follow an iteration that did not return; every iteration sends
\* a request to the random-word API
GetRandomWordStep ==
    /\ pc = "get_random_word"
    /\ pcall.op = "get_random_word"
    /\ \E fresp \in FetchResponses, sample \in jitter(delay) :
       \E lresp \in lookup_answers(fresp.kind = "Word" /\ fresp.word # <<>>,
                                   fresp.word, _valid_cache, _invalid_cache) :
        LET it == get_random_word_iteration(fresp, lresp, _valid_cache,
                                            _invalid_cache)
            asked == [pcall EXCEPT !.network = TRUE, !.lookup = it.is_valid]
        IN
        /\ _valid_cache' = it.valid_cache
        /\ _invalid_cache' = it.invalid_cache
        /\ UNCHANGED <<engine_vars, call>>
        /\ IF it.outcome = "return" THEN
               /\ pcall' = [asked EXCEPT !.fetched = "word", !.ret = it.word]
               /\ pc' = "ready"
               /\ UNCHANGED <<attempt, delay, sleeps, sleep_for>>
           ELSE IF it.outcome = "raise" THEN
               /\ pcall' = [asked EXCEPT !.fetched = "raised"]
               /\ pc' = "ready"
               /\ UNCHANGED <<attempt, delay, sleeps, sleep_for>>
           ELSE
               \* lines 60-64, after the try statement
               /\ sleep_for' = sleep_base(delay) + sample
               /\ sleeps' = sleeps + 1
               /\ delay' = next_delay(delay)
               /\ IF loop_continues(attempt, max_retries) THEN
                      /\ attempt' = attempt + 1
                      /\ pcall' = asked
                      /\ pc' = pc
                  ELSE
                      \* return None
                      /\ pcall' = [asked EXCEPT !.fetched = "none"]
                      /\ pc' = "ready"
                      /\ attempt' = attempt

\* the locals of get_random_word are gone once another call is made
no_locals ==
    /\ attempt' = 0
    /\ delay' = 0
    /\ sleeps' = 0
    /\ sleep_for' = 0

\* provider.is_valid_word(word)
IsValidWord ==
    /\ pc = "ready"
    /\ \E word \in LookupWords, resp \in LookupResponses :
        LET v == is_valid_word(word, resp, _valid_cache, _invalid_cache) IN
        /\ _valid_cache' = v.valid_cache
        /\ _invalid_cache' = v.invalid_cache
        /\ pcall' = [NoProviderCall EXCEPT !.op = "is_valid_word", !.word = word,
                                           !.lookup = v.ret, !.network = v.network]
    /\ no_locals
    /\ UNCHANGED <<engine_vars, call, pc>>

\* an idle engine, not called here, holds the provider
InitProvider ==
    /\ Init
    /\ provider # "None"
    /\ max_attempts = MaxAttempts
    /\ words_by_length = build_by_length(<<>>)

NextProvider ==
    \/ GetRandomWord
    \/ GetRandomWordStep
    \/ IsValidWord
    \/ /\ ClearCache
       /\ pcall' = [NoProviderCall EXCEPT !.op = "clear_cache"]
       /\ delay' = 0
       /\ sleeps' = 0
       /\ sleep_for' = 0

\* a call of get_random_word keeps running: every request has a timeout and
\* every sleep is finite
SpecProvider ==
    InitProvider /\ [][NextProvider]_vars /\ WF_vars(GetRandomWordStep)

(***************************************************************************)
(* Vocabulary of the properties.                                           *)
(***************************************************************************)
\* the engine fields as they were when the call that a step completes began
PreFields == IF pc = "ready" THEN Fields ELSE pre

\* the local words of length n, read off the buckets
LocalWords(n) ==
    IF n \in DOMAIN words_by_length
    THEN {words_by_length[n][i] : i \in 1..Len(words_by_length[n])}
    ELSE {}

\* the distinct letters of a word
Letters(w) == {w[i] : i \in 1..Len(w)}

\* the step completes a new_game call in which the provider was asked and
\* gave no word: it returned None (retries exhausted) or raised
ClientFailed == call'.op = "new_game" /\ call'.fetched \in {"none", "raised"}

\* the step is a new_game call that started a round
RoundStarts == call'.op = "new_game" /\ ~call'.raised

\* the step is a guess call
GuessCall == call'.op = "guess"

\* the last call was a guess call
GuessCallDone == call.op = "guess"

\* the guess of the call the step makes, trimmed and upper-cased
Guessed == upper(strip(call'.word))

\* one of the local checks of submitGuess rejects the guess in this state
LocallyRejected(g) ==
    \/ status # "playing"
    \/ g = <<>>
    \/ \E i \in 1..Len(g) : g[i] \notin UpperLetters
    \/ Len(g) # length
    \/ \E i \in 1..Len(_history) : _history[i].guess = g

(***************************************************************************)
(* C1: when new_game(length), length positive, gets no word from the       *)
(* provider (None or an exception) and the round does not start, every     *)
(* field of the engine state (status, length, secret, attempts_left,       *)
(* history) is as it was before the call.                                  *)
(***************************************************************************)
C1_FailedStartLeavesState ==
    [][(ClientFailed /\ call'.raised) => Fields' = PreFields]_vars

(***************************************************************************)
(* C2: whenever the provider fails to supply a word, new_game reports      *)
(* failure and status does not become playing, whatever the local word     *)
(* list holds.                                                             *)
(***************************************************************************)
C2_NoLocalFallback ==
    [][ClientFailed =>
          /\ call'.raised
          /\ (status' = "playing" => PreFields.status = "playing")]_vars

\* C2 as amended: when the provider fails to supply a word, new_game reports
\* failure and leaves status and secret as they were exactly when the local
\* word list holds no word of the requested length; when it holds one, the
\* round starts with a secret taken from that list.
C2_FallbackToLocalWord ==
    [][ClientFailed =>
          IF LocalWords(length') = {}
          THEN /\ call'.raised
               /\ status' = PreFields.status
               /\ secret' = PreFields.secret
          ELSE /\ ~call'.raised
               /\ status' = "playing"
               /\ secret' \in LocalWords(length')]_vars

C2_Witness ==
    /\ call.op = "new_game"
    /\ call.fetched \in {"none", "raised"}
    /\ ~call.raised
    /\ status = "playing"
    /\ secret \in LocalWords(length)

(***************************************************************************)
(* C3: when is_valid_word returns None (Indeterminate) for a guess that    *)
(* passed the local checks, guess returns an invalid outcome and leaves    *)
(* attempts_left, history and status unchanged; with a provider, an        *)
(* attempt is consumed only when the lookup confirmed the guess.           *)
(***************************************************************************)
C3_IndeterminateNeverConsumes ==
    [][GuessCall =>
          /\ call'.lookup = "None" =>
                 /\ ~call'.valid
                 /\ UNCHANGED <<attempts_left, _history, status>>
          /\ (provider # "None" /\ attempts_left' # attempts_left) =>
                 call'.lookup = "True"]_vars

\* C3 as amended: when is_valid_word returns None for a guess that passed the
\* local checks, the guess is rejected and attempts_left, history and status
\* stay unchanged unless the local word list of the round's length contains
\* the guess, in which case it is accepted and consumes an attempt; an attempt
\* is consumed only when the lookup confirmed the guess or, without an answer
\* of the lookup, the local list contains it.
C3_IndeterminateAsksLocalList ==
    [][GuessCall =>
          /\ (call'.lookup = "None" /\ Guessed \notin LocalWords(length)) =>
                 /\ ~call'.valid
                 /\ UNCHANGED <<attempts_left, _history, status>>
          /\ (call'.lookup = "None" /\ Guessed \in LocalWords(length)) =>
                 /\ call'.valid
                 /\ attempts_left' = attempts_left - 1
          /\ attempts_left' # attempts_left =>
                 \/ call'.lookup = "True"
                 \/ /\ call'.lookup \in {"None", "NotCalled"}
                    /\ Guessed \in LocalWords(length)]_vars

C3_Witness ==
    /\ call.op = "guess"
    /\ call.lookup = "None"
    /\ ~call.valid
    /\ status = "playing"
    /\ LocalWords(length) # {}

(***************************************************************************)
(* C4: with a provider, guess returns "not in the dictionary" only when    *)
(* is_valid_word returned a definite False, and it returns a distinct      *)
(* could-not-validate outcome when is_valid_word returned None.            *)
(***************************************************************************)
C4_IndeterminateNeverRejectsWord ==
    GuessCallDone =>
        /\ (provider # "None" /\ call.message = "is not in the dictionary.") =>
               call.lookup = "False"
        /\ call.lookup = "None" =>
               /\ ~call.valid
               /\ call.message = "Dictionary unavailable. Check internet or words.txt."

\* C4 as amended: guess returns "not in the dictionary" only when
\* is_valid_word returned False or, the lookup having given no answer, the
\* local word list of the round's length is non-empty and lacks the guess;
\* when is_valid_word returned None and that list is empty, guess returns the
\* distinct "Dictionary unavailable" outcome.
C4_RejectionNeedsADictionary ==
    GuessCallDone =>
        /\ call.message = "is not in the dictionary." =>
               \/ call.lookup = "False"
               \/ /\ call.lookup \in {"None", "NotCalled"}
                  /\ LocalWords(length) # {}
                  /\ upper(strip(call.word)) \notin LocalWords(length)
        /\ (call.lookup = "None" /\ LocalWords(length) = {}) =>
               /\ ~call.valid
               /\ call.message = "Dictionary unavailable. Check internet or words.txt."

C4_Witness ==
    /\ call.op = "guess"
    /\ call.lookup = "None"
    /\ LocalWords(length) = {}
    /\ call.message = "Dictionary unavailable. Check internet or words.txt."

(***************************************************************************)
(* C5: within one round attempts_left never increases, and it is never     *)
(* negative (max_attempts is positive).                                    *)
(***************************************************************************)
C5_AttemptsLeftMonotone ==
    /\ [](attempts_left >= 0)
    /\ [][RoundStarts \/ attempts_left' <= attempts_left]_vars

C5_Witness ==
    /\ status = "playing"
    /\ 0 < attempts_left
    /\ attempts_left < round_attempts

(***************************************************************************)
(* C6: a guess call rejected by a local check (status not playing, empty   *)
(* after trim, a non-letter character, wrong length, duplicate of a guess  *)
(* in history) leaves attempts_left, history, status and secret unchanged  *)
(* and returns an invalid outcome with a non-empty message.                *)
(***************************************************************************)
C6_LocalRejectionChangesNothing ==
    [][(GuessCall /\ LocallyRejected(Guessed)) =>
          /\ ~call'.valid
          /\ call'.message # ""
          /\ UNCHANGED <<attempts_left, _history, status, secret>>]_vars

C6_Witness ==
    /\ call.op = "guess"
    /\ status = "playing"
    /\ \E i \in 1..Len(_history) : _history[i].guess = upper(strip(call.word))
    /\ call.word # _history[Len(_history)].guess
    /\ ~call.valid
    /\ attempts_left + Len(_history) = round_attempts

(***************************************************************************)
(* C7: in a playing state, an accepted guess equal to the secret sets      *)
(* status to won and appends exactly one history entry, whose common       *)
(* count equals length.                                                    *)
(***************************************************************************)
C7_SecretGuessScoresLength ==
    [][(GuessCall /\ status = "playing" /\ call'.valid /\ Guessed = secret) =>
          /\ status' = "won"
          /\ Len(_history') = Len(_history) + 1
          /\ SubSeq(_history', 1, Len(_history)) = _history
          /\ _history'[Len(_history')].guess = secret
          /\ _history'[Len(_history')].common = length]_vars

\* C7 as amended: in a playing state, an accepted guess equal to the secret
\* sets status to won and appends exactly one history entry, whose common
\* count equals the number of distinct letters of the secret.
C7_SecretGuessScoresDistinctLetters ==
    [][(GuessCall /\ status = "playing" /\ call'.valid /\ Guessed = secret) =>
          /\ status' = "won"
          /\ Len(_history') = Len(_history) + 1
          /\ SubSeq(_history', 1, Len(_history)) = _history
          /\ _history'[Len(_history')].guess = secret
          /\ _history'[Len(_history')].common = Cardinality(Letters(secret))]_vars

C7_Witness ==
    /\ call.op = "guess"
    /\ call.valid
    /\ status = "won"
    /\ upper(strip(call.word)) = secret
    /\ _history # <<>>
    /\ _history[Len(_history)].common = Cardinality(Letters(secret))
    /\ _history[Len(_history)].common < length

(***************************************************************************)
(* C8: after exactly max_attempts valid, non-winning guesses in one round  *)
(* (max_attempts as the round started with), status is lost and            *)
(* attempts_left is 0.                                                     *)
(***************************************************************************)
C8_LostAfterMaxAttempts ==
    (/\ status # "idle"
     /\ Len(_history) = round_attempts
     /\ \A i \in 1..Len(_history) : _history[i].guess # secret)
        => (status = "lost" /\ attempts_left = 0)

C8_Witness ==
    /\ status = "lost"
    /\ attempts_left = 0
    /\ round_attempts >= 2
    /\ Len(_history) = round_attempts
    /\ \A i \in 1..Len(_history) : _history[i].guess # secret
    /\ Len(secret) = length

(***************************************************************************)
(* C9: status only moves forward within a round: once status is won or     *)
(* lost every guess call is rejected and changes no state; status becomes  *)
(* playing, from idle, won or lost, only through a new_game that           *)
(* succeeds; playing is left only for won or lost, by a guess; status      *)
(* never returns to idle.                                                  *)
(***************************************************************************)
C9_StatusMovesForward ==
    [][/\ (GuessCall /\ status \in {"won", "lost"}) =>
              /\ ~call'.valid
              /\ UNCHANGED <<words_by_length, max_attempts, provider,
                             connection_mode, length, secret, attempts_left,
                             status, _history, _valid_cache, _invalid_cache>>
       /\ (status # "playing" /\ status' = "playing") => RoundStarts
       /\ (status = "playing" /\ status' # "playing") =>
              (GuessCall /\ call'.valid /\ status' \in {"won", "lost"})
       /\ (status \in {"won", "lost"} /\ status' # status) => status' = "playing"
       /\ status # "idle" => status' # "idle"]_vars

C9_Witness ==
    /\ call.op = "guess"
    /\ status \in {"won", "lost"}
    /\ call.message = "Start a new game first."
    /\ call.word # _history[Len(_history)].guess

(***************************************************************************)
(* C10: whenever no call is in progress and secret is not None, secret is  *)
(* upper-case and has exactly `length` letters.                            *)
(***************************************************************************)
C10_SecretUpperOfLength ==
    (pc = "ready" /\ secret # None) =>
        /\ \A i \in 1..Len(secret) : secret[i] \in UpperLetters
        /\ Len(secret) = length


\* C11: a call of new_game that succeeds, whatever the status before it (idle,
\* playing, won or lost), leaves the engine playing, with the length it was
\* given, a secret drawn in this call, attempts_left equal to max_attempts and
\* an empty history.
C11_SuccessfulStartResetsRound ==
    [][RoundStarts =>
          /\ status \in {"idle", "playing", "won", "lost"}
          /\ status' = "playing"
          /\ length' = call'.length_arg
          /\ secret' \in {upper(w) : w \in SourceWords}
                             \cup LocalWords(call'.length_arg)
          /\ attempts_left' = max_attempts'
          /\ _history' = <<>>]_vars

\* a round started by new_game on an engine that has rejected a word before
C11_Witness ==
    /\ call.op = "new_game"
    /\ ~call.raised
    /\ status = "playing"
    /\ _history = <<>>
    /\ attempts_left = max_attempts
    /\ _invalid_cache # {}

(***************************************************************************)
(* Vocabulary of the properties of the provider.                           *)
(***************************************************************************)
\* the step is a call of is_valid_word by the client
IsValidWordCall == pcall'.op = "is_valid_word"

\* the cache key of the word the call asked about
Asked == upper(pcall'.word)

\* the call of get_random_word has ended
GetRandomWordDone == pcall.op = "get_random_word" /\ pcall.fetched # "n/a"

\* C12: once is_valid_word has answered True or False for a word, the word is
\* in the cache of that answer under its upper-case form and stays there
\* until clear_cache; a call for a cached word, in any letter case, returns
\* the cached answer and issues no request.
C12_DefiniteAnswerIsCached ==
    /\ [][IsValidWordCall =>
            /\ Asked \in _valid_cache =>
                   pcall'.lookup = "True" /\ ~pcall'.network
            /\ Asked \in _invalid_cache =>
                   pcall'.lookup = "False" /\ ~pcall'.network
            /\ pcall'.lookup = "True" => Asked \in _valid_cache'
            /\ pcall'.lookup = "False" => Asked \in _invalid_cache']_vars
    /\ [][pcall'.op # "clear_cache" =>
            /\ _valid_cache \subseteq _valid_cache'
            /\ _invalid_cache \subseteq _invalid_cache']_vars

\* is_valid_word("Ab") answered False from the cache
C12_Witness ==
    /\ pcall.op = "is_valid_word"
    /\ pcall.word = <<"A", "b">>
    /\ pcall.lookup = "False"
    /\ ~pcall.network
    /\ <<"A", "B">> \in _invalid_cache

\* C13: an is_valid_word call that returns None has issued a request and adds
\* the word to neither cache; a call for a word in neither cache issues a
\* request, so after a None the next call for the word asks again and can
\* return True or False.
C13_IndeterminateIsNotCached ==
    /\ [][IsValidWordCall =>
            /\ pcall'.lookup = "None" =>
                   /\ pcall'.network
                   /\ UNCHANGED <<_valid_cache, _invalid_cache>>
                   /\ Asked \notin _valid_cache' \cup _invalid_cache'
            /\ Asked \notin _valid_cache \cup _invalid_cache =>
                   pcall'.network]_vars
    /\ [](pcall.op = "is_valid_word" /\ pcall.lookup = "None" =>
            \A answer \in {"True", "False"} :
                ENABLED (/\ IsValidWord
                         /\ pcall'.word = pcall.word
                         /\ pcall'.lookup = answer
                         /\ pcall'.network))

\* is_valid_word returned None while another word is cached
C13_Witness ==
    /\ pcall.op = "is_valid_word"
    /\ pcall.lookup = "None"
    /\ pcall.network
    /\ upper(pcall.word) \notin _valid_cache \cup _invalid_cache
    /\ _valid_cache # {}

\* C20: no word is in _valid_cache and in _invalid_cache at once, whatever
\* calls of is_valid_word, get_random_word and clear_cache came before.
C20_CachesDisjoint == _valid_cache \cap _invalid_cache = {}

\* both caches hold a word, after a call of get_random_word
C20_Witness ==
    /\ _valid_cache # {}
    /\ _invalid_cache # {}
    /\ GetRandomWordDone

\* C14: a call of get_random_word ends, whatever the two APIs answer: it runs
\* at most max_retries iterations, an iteration whose word is_valid_word
\* confirms ends the call with that word, every other iteration that does
\* not end the call is followed by the next one, and the call returns None
\* only after max_retries iterations of which none was confirmed.
C14_GetRandomWordTerminates ==
    /\ [](pcall.op = "get_random_word" => attempt \in 1..max_retries)
    /\ [][pc = "get_random_word" =>
            /\ pcall'.lookup = "True" =>
                   pc' = "ready" /\ pcall'.fetched = "word"
            /\ pcall'.fetched = "word" => pcall'.lookup = "True"
            /\ pc' = "get_random_word" => attempt' = attempt + 1
            /\ pcall'.fetched = "none" =>
                   attempt = max_retries /\ pcall'.lookup # "True"]_vars
    /\ (pc = "get_random_word") ~> (pc = "ready")

\* get_random_word has returned None after max_retries iterations, the last
\* one with a word the dictionary API could not judge
C14_Witness ==
    /\ GetRandomWordDone
    /\ pcall.fetched = "none"
    /\ attempt = max_retries
    /\ pcall.lookup = "None"

\* C15: a word get_random_word returns is a non-empty upper-case word for
\* which is_valid_word returned True in the iteration that returned it (so
\* it is in _valid_cache); a call that ends otherwise returns no word.
C15_ReturnedWordIsValidated ==
    GetRandomWordDone =>
        IF pcall.fetched = "word" THEN
            /\ pcall.ret # None
            /\ Len(pcall.ret) > 0
            /\ \A i \in 1..Len(pcall.ret) : pcall.ret[i] \in UpperLetters
            /\ pcall.lookup = "True"
            /\ pcall.ret \in _valid_cache
        ELSE
            pcall.ret = None

\* get_random_word returned a word in a later iteration, after the dictionary
\* API rejected another
C15_Witness ==
    /\ GetRandomWordDone
    /\ pcall.fetched = "word"
    /\ pcall.ret = <<"A", "B">>
    /\ attempt > 1
    /\ _invalid_cache # {}

\* C16: no call of get_random_word ends with an exception, whatever the
\* random-word API answers (a payload whose first element is not a string
\* included).
C16_NoExceptionLeavesGetRandomWord ==
    (GetRandomWordDone /\ pcall.length_arg > 0) => pcall.fetched # "raised"

\* C17: get_random_word called with a non-positive length issues no request
\* and ends by raising.
C17_NonPositiveLengthIsRejected ==
    (pcall.op = "get_random_word" /\ pcall.length_arg <= 0) =>
        /\ ~pcall.network
        /\ pc = "ready" => pcall.fetched = "raised"

\* C18: in get_random_word the delay starts at backoff_base and after every
\* iteration that does not end the call becomes min(delay * backoff_factor,
\* backoff_cap); the sleep of that iteration lasts at least the delay and at
\* most the delay plus a tenth of it, and the delay it uses is never above
\* backoff_cap.
C18_BackoffDelayAndSleep ==
    /\ [][pc = "ready" /\ pc' = "get_random_word" => delay' = backoff_base]_vars
    /\ [][pc = "get_random_word" =>
            IF pcall'.fetched \in {"word", "raised"} THEN
                UNCHANGED <<delay, sleeps>>
            ELSE
                /\ sleeps' = sleeps + 1
                /\ delay <= backoff_cap
                /\ sleep_for' >= delay
                /\ 10 * (sleep_for' - delay) <= delay
                /\ IF delay * backoff_factor[1] >= backoff_cap * backoff_factor[2]
                   THEN delay' = backoff_cap
                   ELSE delay' * backoff_factor[2] = delay * backoff_factor[1]]_vars

\* a sleep of the capped delay with some jitter
C18_Witness ==
    /\ pc = "get_random_word"
    /\ delay = backoff_cap
    /\ sleep_for > backoff_cap

\* C19: a call of get_random_word that ran k iterations has slept k-1
\* times: no sleep follows its last iteration.
C19_SleepsOnlyBetweenIterations ==
    (GetRandomWordDone /\ pcall.length_arg > 0) => sleeps = attempt - 1

\* C21: the history never holds two entries with the same guess, and every
\* guess in it is in its normalized (upper-case) form; a call of guess whose
\* normalized word is already in the history is rejected with no call of
\* is_valid_word (the caches stay as they are) and appends nothing.
C21_NoGuessTwiceInHistory ==
    /\ [](\A i, j \in 1..Len(_history) :
              /\ _history[i].guess = upper(_history[i].guess)
              /\ i # j => _history[i].guess # _history[j].guess)
    /\ [][(GuessCall /\ \E i \in 1..Len(_history) : _history[i].guess = Guessed) =>
              /\ ~call'.valid
              /\ call'.lookup = "NotCalled"
              /\ UNCHANGED <<_history, attempts_left, status, _valid_cache,
                             _invalid_cache>>]_vars

\* with a provider, " Ab" was rejected as a repeat of the AB in the history
C21_Witness ==
    /\ call.op = "guess"
    /\ call.word = <<" ", "A", "b">>
    /\ ~call.valid
    /\ call.lookup = "NotCalled"
    /\ provider # "None"
    /\ status = "playing"
    /\ \E i \in 1..Len(_history) : _history[i].guess = <<"A", "B">>
====
